---- MODULE Spec2Model ----
(***************************************************************************)
(* The libvirt image cache manager (nova/virt/libvirt/imagecache.py):      *)
(* ImageCacheManager.verify_base_images and the helpers it calls, run by   *)
(* one or by several compute hosts against one shared instances           *)
(* directory.  A pass is modelled step by step: every place where the     *)
(* code reads or writes the shared file system, takes the external lock   *)
(* or reads the clock is an action of its own, so that passes of two      *)
(* hosts interleave exactly where the processes can.                      *)
(***************************************************************************)
EXTENDS Integers, Sequences, FiniteSets, TLC

(***************************************************************************)
(* Bounds of the model.                                                    *)
(***************************************************************************)
\* Largest number of image files the base directory holds initially.
MaxFiles == 3
\* Largest number of files that have a stored checksum initially.
MaxRecords == 1
\* The clock runs from 1 to MaxTime.
MaxTime == 3
\* Largest number of passes one host starts.
MaxPasses == 1

\* The two-pass and the two-host specifications: files of the base
\* directory, passes of the host, records, and the clock at the start.
MaxFilesTwice == 2
MaxPassesTwice == 2
MaxFilesHosts == 2
MaxFilesRefuse == 3
MaxFilesVerify == 2
MaxFilesScan == 3
MaxFilesShadow == 2
MaxInstancesShadow == 2

(***************************************************************************)
(* Configuration values (imagecache_opts).  They are operator-set integer  *)
(* options; the model runs with small values, in units of one clock tick.  *)
(***************************************************************************)
remove_unused_resized_minimum_age_seconds == 1
remove_unused_original_minimum_age_seconds == 2
checksum_interval_seconds == 2

\* hashlib.sha1().digestsize * 2
digest_size == 40

(***************************************************************************)
(* File names.  A name is a stem and a suffix; the suffix is kept as the   *)
(* sequence of its characters, so that length, the character at an index   *)
(* and the regular expression of _find_base_file are computed as the code  *)
(* computes them.  A fingerprint stem stands for its 40 hex digits.        *)
(***************************************************************************)
NoValue == "None"

ImageIds == {"a", "b"}
Fingerprints == {"Fa", "Fb", "Fz"}
Digits == {"0", "1", "2", "3", "4", "5", "6", "7", "8", "9"}

\* hashlib.sha1(img).hexdigest(): "Fz" is the digest of no image id in use.
sha1_hexdigest(img) == CASE img = "a" -> "Fa"
                         [] img = "b" -> "Fb"
                         [] OTHER -> "Fz"

Name(pre, suf) == [pre |-> pre, suf |-> suf]

StemLen(pre) == IF pre \in Fingerprints THEN digest_size ELSE 7

NameLen(n) == StemLen(n.pre) + Len(n.suf)

\* ent[i], i counted from 0; a character of the stem is a hex digit ("x").
CharAt(n, i) == IF i < StemLen(n.pre) THEN "x" ELSE n.suf[i - StemLen(n.pre) + 1]

InfoSuffix == <<".", "i", "n", "f", "o">>

Fa == Name("Fa", <<>>)
Fa_sm == Name("Fa", <<"_", "s", "m">>)
Fa_10 == Name("Fa", <<"_", "1", "0">>)
Fa_20 == Name("Fa", <<"_", "2", "0">>)
Fa_5 == Name("Fa", <<"_", "5">>)
Fz == Name("Fz", <<>>)
Fz_10 == Name("Fz", <<"_", "1", "0">>)
Kernel == Name("vmlinuz", <<>>)

\* The image files the base directory may hold.
BaseNames == {Fa, Fa_sm, Fa_10, Fa_20, Fz_10}

\* virtutils.get_info_filename: the sidecar of a base file.
get_info_filename(n) == Name(n.pre, n.suf \o InfoSuffix)

IsDigits(s) == Len(s) >= 1 /\ \A i \in 1..Len(s) : s[i] \in Digits

\* The image part of an info file name: fingerprint, fingerprint_sm or
\* fingerprint_<digits>.
IsImageSuffix(s) ==
    \/ s = <<>>
    \/ s = <<"_", "s", "m">>
    \/ (Len(s) >= 2 /\ s[1] = "_" /\ IsDigits(SubSeq(s, 2, Len(s))))

\* virtutils.is_valid_info_file
is_valid_info_file(n) ==
    /\ n.pre \in Fingerprints
    /\ Len(n.suf) >= Len(InfoSuffix)
    /\ SubSeq(n.suf, Len(n.suf) - Len(InfoSuffix) + 1, Len(n.suf)) = InfoSuffix
    /\ IsImageSuffix(SubSeq(n.suf, 1, Len(n.suf) - Len(InfoSuffix)))

\* resize_re = re.compile('.*/%s_[0-9]+$' % fingerprint), matched on a path
\* of the base directory.
resize_re_match(fingerprint, n) ==
    /\ n.pre = fingerprint
    /\ Len(n.suf) >= 2
    /\ n.suf[1] = "_"
    /\ IsDigits(SubSeq(n.suf, 2, Len(n.suf)))

(***************************************************************************)
(* Sequences as Python lists.                                              *)
(***************************************************************************)
Range(s) == {s[i] : i \in 1..Len(s)}

In(x, s) == x \in Range(s)

Append1(s, x) == s \o <<x>>

RECURSIVE list_remove(_, _)
\* list.remove(x): drops the first occurrence.
list_remove(s, x) ==
    IF s = <<>> THEN <<>>
    ELSE IF Head(s) = x THEN Tail(s)
    ELSE <<Head(s)>> \o list_remove(Tail(s), x)

RECURSIVE SeqFilter(_, _)
SeqFilter(s, keep) ==
    IF s = <<>> THEN <<>>
    ELSE IF Head(s) \in keep THEN <<Head(s)>> \o SeqFilter(Tail(s), keep)
    ELSE SeqFilter(Tail(s), keep)

RECURSIVE SetToSeq(_)
SetToSeq(S) == IF S = {} THEN <<>>
               ELSE LET x == CHOOSE y \in S : TRUE
                    IN <<x>> \o SetToSeq(S \ {x})

\* All sequences without repetition of at most n elements of S.
RECURSIVE Arrangements(_, _)
Arrangements(S, n) ==
    IF n = 0 THEN {<<>>}
    ELSE LET shorter == Arrangements(S, n - 1)
         IN shorter \cup
            UNION {{Append1(s, x) : x \in S \ Range(s)} : s \in shorter}

(***************************************************************************)
(* Hosts, instances and the inputs of a pass.                              *)
(***************************************************************************)
Hosts == {"h1", "h2"}

\* nova.compute.task_states and vm_states
RESIZE_PREP == "resize_prep"
RESIZE_MIGRATING == "resize_migrating"
RESIZE_MIGRATED == "resize_migrated"
RESIZE_FINISH == "resize_finish"
RESIZED == "resized"

\* The task states from the preparation to the end of the migration.
resize_states_migration == {RESIZE_PREP, RESIZE_MIGRATING, RESIZE_MIGRATED}

\* _list_running_instances: resize_states
resize_states == {RESIZE_PREP, RESIZE_MIGRATING, RESIZE_MIGRATED, RESIZE_FINISH}

InstanceNames == {"i1", "i2"}

\* instance['name'] + '_resize'
resize_name(name) == CASE name = "i1" -> "i1_resize"
                       [] name = "i2" -> "i2_resize"

Instance(name, image_ref, host, task_state, vm_state) ==
    [name |-> name, image_ref |-> image_ref, host |-> host,
     task_state |-> task_state, vm_state |-> vm_state]

\* Largest number of instances of a snapshot given to _list_running_instances.
MaxInstances == 2

\* The instances the usage collection is checked on: an instance in the
\* vm_state resized has no task.
UsageInstances ==
    {Instance(n, i, ho, ts, vs) :
        n \in InstanceNames, i \in ImageIds, ho \in Hosts \cup {NoValue},
        ts \in resize_states \cup {NoValue}, vs \in {"active"}}
    \cup
    {Instance(n, i, ho, NoValue, RESIZED) :
        n \in InstanceNames, i \in ImageIds, ho \in Hosts \cup {NoValue}}

RECURSIVE SeqsUpTo(_, _)
\* All sequences of at most n elements of S.
SeqsUpTo(S, n) ==
    IF n = 0 THEN {<<>>}
    ELSE LET shorter == SeqsUpTo(S, n - 1)
         IN shorter \cup {Append(s, x) : s \in shorter, x \in S}

\* The instance snapshots a pass may be called with (all_instances).
PassSnapshots ==
    { <<>>,
      <<Instance("i1", "a", "h1", NoValue, "active")>>,
      <<Instance("i1", "a", "h1", NoValue, "active"),
        Instance("i2", "b", "h2", NoValue, "active")>>,
      <<Instance("i1", "a", "h1", RESIZE_MIGRATING, "active")>> }

\* The backing file None, and the file no frame has yet.
NoFile == Name(NoValue, <<>>)

\* The entries of CONF.instances_path: an instance directory is absent, has
\* no disk file, or has a disk whose backing file (as
\* virtutils.get_disk_backing_file gives it) is None or a file name.
DirNames == {"i1", "i1_resize", "i2", "i2_resize"}

DirAbsent == [disk |-> "absent", backing |-> NoFile]
DirNoDisk == [disk |-> "nodisk", backing |-> NoFile]
DirDisk(backing) == [disk |-> "disk", backing |-> backing]

\* The instance directories of the model: i1 runs on a resized copy of image
\* a, the directory i1_resize and the instance i2 on the file Fz_10, which is
\* the fingerprint of no image an instance refers to.
inst_dirs == [d \in DirNames |-> CASE d = "i1" -> DirDisk(Fa_10)
                                   [] d = "i1_resize" -> DirDisk(Fz_10)
                                   [] d = "i2" -> DirDisk(Fz_10)
                                   [] d = "i2_resize" -> DirNoDisk]

(***************************************************************************)
(* The stored checksum of a base file (its info file): nothing, a digest   *)
(* without timestamp (written by an older version), or a digest with the   *)
(* time it was written.  The code tests the timestamp for truth only, so   *)
(* None and 0 are one value here, and the clock starts at 1.  utils.hash_file maps the bytes of a file to a     *)
(* digest; every base file holds the bytes "c1".                           *)
(***************************************************************************)
NoTimestamp == 0

NoRecord == [sha1 |-> NoValue, ts |-> NoTimestamp]

\* What a frame of inner_verify_checksum read: the record and the clock.
NothingRead == [sha1 |-> NoValue, ts |-> NoTimestamp, t |-> 0]

hash_file(bytes) == CASE bytes = "c1" -> "d1"
                      [] bytes = "c0" -> "d0"

FileBytes(n) == "c1"

Record(sha1, ts) == [sha1 |-> sha1, ts |-> ts]

InitialRecords == {Record(d, t) : d \in {"d0", "d1"}, t \in {NoTimestamp, 1}}

VARIABLES
    \* the shared file system, the clock and the configuration
    base_dir_exists,          \* os.path.exists(base_dir)
    base_dir,                 \* the image files of the base directory, in os.listdir order
    mtime,                    \* os.path.getmtime of each file
    info,                     \* the stored checksum of each file
    now,                      \* time.time()
    lock,                     \* the lock files of lock_path: lock name -> holders
    checksum_base_images,     \* CONF.checksum_base_images
    remove_unused_base_images,\* CONF.remove_unused_base_images
    hosts,                    \* the hosts that run the cache manager
    pass_limit,               \* the passes each host runs
    snapshots,                \* the instance lists a pass may be called with
    create_arg,               \* the argument create_if_missing of _verify_checksum
    refuses,                  \* the names whose os.remove raises OSError
    \* ImageCacheManager, one per host
    used_images, image_popularity, instance_names,
    active_base_files, corrupt_base_files, originals,
    removable_base_files, unexplained_images,
    \* the position of each host in its pass and the locals of the frames
    pc,
    all_instances,            \* the argument of verify_base_images
    todo_images,              \* keys of used_images not yet iterated
    img,                      \* the image id of the running iteration
    gen_idx,                  \* index of the list iterator of _find_base_file
    base_file,                \* the file yielded last
    kind,                     \* "original", "small" or "resized"
    stored,                   \* (stored_checksum, stored_timestamp) as read
    checksum_result,          \* what _verify_checksum returned
    rm_idx,                   \* index of the reclamation loop
    \* records of what each pass did
    passes,                   \* passes started by each host
    scanned,                  \* unexplained_images as the scan left it
    deleted,                  \* files the running pass removed
    touched,                  \* files the running pass refreshed with os.utime
    last_utime,               \* the time of the last os.utime of each file, by any host
    vlog,                     \* the verifications of the running pass
    rmlog,                    \* the removal attempts of the running pass
    prev                      \* the outcome of the host's previous pass

fsVars == <<base_dir_exists, base_dir, mtime, info>>
confVars == <<checksum_base_images, remove_unused_base_images, hosts,
              pass_limit, snapshots, create_arg, refuses>>
mgrVars == <<used_images, image_popularity, instance_names, active_base_files,
             corrupt_base_files, originals, removable_base_files,
             unexplained_images>>
frameVars == <<all_instances, todo_images, img, gen_idx, base_file, kind,
               stored, checksum_result, rm_idx>>
histVars == <<passes, scanned, deleted, touched, last_utime, vlog, rmlog,
              prev>>
vars == <<fsVars, now, lock, confVars, mgrVars, pc, frameVars, histVars>>

\* The outcome of a pass that never ran.
NoOutcome ==
    [active |-> {}, corrupt |-> {}, removable |-> {}, instances |-> <<>>,
     deleted |-> {}, vlog |-> {}, rmlog |-> {}, listing |-> <<>>,
     ended |-> "never"]

Exists(n) == base_dir_exists /\ In(n, base_dir)

\* lock_name = 'hash-%s' % os.path.split(base_file)[-1]
LockName(n) == n

\* _verify_checksum.create_if_missing, as _handle_base_image calls it.
create_if_missing == TRUE

\* A lock that is no lock file: external=False.
lock_internal == FALSE

\* lockutils.synchronized(lock_name, 'nova-', external=True, ...)
lock_external == TRUE

\* lockutils.synchronized: a holder g keeps h out when the lock is a lock
\* file of the shared lock_path (external), or when both are one process.
Excludes(g, h) == lock_external \/ g = h

\* lockutils.synchronized: the lock can be taken by h.
synchronized_free(h, name) == \A g \in lock[name] : ~Excludes(g, h)

\* lockutils.synchronized: the locks after h took the lock name.
synchronized_enter(h, name) == [lock EXCEPT ![name] = @ \cup {h}]

\* lockutils.synchronized: the locks after h left the decorated function,
\* by return or by exception.
synchronized_exit(h, name) == [lock EXCEPT ![name] = @ \ {h}]

(***************************************************************************)
(* Initial states.                                                         *)
(***************************************************************************)
\* ImageCacheManager.__init__ and _reset_state, on every host.
ManagerInit ==
    /\ used_images = [h \in Hosts |-> <<>>]
    /\ image_popularity = [h \in Hosts |-> <<>>]
    /\ instance_names = [h \in Hosts |-> {}]
    /\ active_base_files = [h \in Hosts |-> <<>>]
    /\ corrupt_base_files = [h \in Hosts |-> <<>>]
    /\ originals = [h \in Hosts |-> <<>>]
    /\ removable_base_files = [h \in Hosts |-> <<>>]
    /\ unexplained_images = [h \in Hosts |-> <<>>]
    /\ pc = [h \in Hosts |-> "idle"]
    /\ all_instances = [h \in Hosts |-> <<>>]
    /\ todo_images = [h \in Hosts |-> {}]
    /\ img = [h \in Hosts |-> NoValue]
    /\ gen_idx = [h \in Hosts |-> 0]
    /\ base_file = [h \in Hosts |-> NoFile]
    /\ kind = [h \in Hosts |-> NoValue]
    /\ stored = [h \in Hosts |-> NothingRead]
    /\ checksum_result = [h \in Hosts |-> NoValue]
    /\ rm_idx = [h \in Hosts |-> 0]
    /\ passes = [h \in Hosts |-> 0]
    /\ scanned = [h \in Hosts |-> <<>>]
    /\ deleted = [h \in Hosts |-> {}]
    /\ touched = [h \in Hosts |-> {}]
    /\ last_utime = [f \in BaseNames |-> NoTimestamp]
    /\ vlog = [h \in Hosts |-> {}]
    /\ rmlog = [h \in Hosts |-> {}]
    /\ prev = [h \in Hosts |-> NoOutcome]

\* The file system a pass may find: any listing of at most MaxFiles image
\* files, at most MaxRecords of them with a stored checksum, all written at
\* time 1.
FileSystemInit ==
    /\ base_dir_exists \in BOOLEAN
    /\ base_dir \in Arrangements(BaseNames, MaxFiles)
    /\ base_dir_exists = FALSE => base_dir = <<>>
    /\ mtime = [n \in BaseNames |-> 1]
    /\ info \in [BaseNames -> InitialRecords \cup {NoRecord}]
    /\ \A n \in BaseNames : info[n] # NoRecord => In(n, base_dir)
    /\ Cardinality({n \in BaseNames : info[n] # NoRecord}) <= MaxRecords
    /\ now = 1
    /\ lock = [n \in BaseNames |-> {}]

Init ==
    /\ FileSystemInit
    /\ checksum_base_images \in BOOLEAN
    /\ remove_unused_base_images \in BOOLEAN
    /\ hosts = {"h1"}
    /\ pass_limit = MaxPasses
    /\ snapshots = PassSnapshots
    /\ create_arg = create_if_missing
    /\ refuses = {}
    /\ ManagerInit

(***************************************************************************)
(* The pure parts of a pass.                                               *)
(***************************************************************************)
\* os.listdir(base_dir): the image files and the info files beside them.
ListDir ==
    IF base_dir_exists
    THEN base_dir \o
         SetToSeq({get_info_filename(n) : n \in {m \in BaseNames : info[m] # NoRecord}})
    ELSE <<>>

\* _list_base_images: len(ent) == digest_size
IsOriginalEntry(ent) == NameLen(ent) = digest_size

\* The elif branch without the test of the info file.
IsDerivedEntryOrInfo(ent) ==
    /\ NameLen(ent) # digest_size
    /\ NameLen(ent) > digest_size + 2
    /\ CharAt(ent, digest_size) = "_"

\* _list_base_images: the elif branch
IsDerivedEntry(ent) ==
    /\ NameLen(ent) # digest_size
    /\ NameLen(ent) > digest_size + 2
    /\ CharAt(ent, digest_size) = "_"
    /\ ~is_valid_info_file(ent)

\* _store_image: os.path.isfile(entpath); every entry is a regular file.
IsStored(ent) == IsOriginalEntry(ent) \/ IsDerivedEntry(ent)

\* The state _list_base_images leaves: (unexplained_images, originals).
list_base_images(listing) ==
    [unexplained |-> SelectSeq(listing, IsStored),
     originals |-> SelectSeq(listing, IsOriginalEntry)]

\* The resize test on the task state alone.
InResizeTask(instance) == instance.task_state \in resize_states

\* _list_running_instances: the resize test of an instance.
InResize(instance) ==
    instance.task_state \in resize_states \/ instance.vm_state = RESIZED

\* _list_running_instances: the names one instance adds to instance_names.
NamesOf(instance) ==
    {instance.name} \cup
    (IF InResize(instance) THEN {resize_name(instance.name)} ELSE {})

DictGet(d, k, default) == IF k \in DOMAIN d THEN d[k] ELSE default

DictPut(d, k, v) == [x \in DOMAIN d \cup {k} |-> IF x = k THEN v ELSE d[x]]

\* An instance without host counts as local.
IsLocalOrUnknown(instance, host) == instance.host \in {host, NoValue}

\* _list_running_instances: instance['host'] == CONF.host
IsLocal(instance, host) == instance.host = host

RECURSIVE list_running_instances(_, _, _)
\* _list_running_instances: the loop over all_instances, from the state
\* st = [used_images, image_popularity, instance_names].
list_running_instances(insts, host, st) ==
    IF insts = <<>> THEN st
    ELSE LET instance == Head(insts)
             image_ref_str == instance.image_ref
             old == DictGet(st.used_images, image_ref_str, <<0, 0, <<>>>>)
             local == IF IsLocal(instance, host) THEN old[1] + 1 ELSE old[1]
             remote == IF IsLocal(instance, host) THEN old[2] ELSE old[2] + 1
             names == Append(old[3], instance.name)
         IN list_running_instances(Tail(insts), host,
                [used_images |-> DictPut(st.used_images, image_ref_str,
                                         <<local, remote, names>>),
                 image_popularity |->
                     DictPut(st.image_popularity, image_ref_str,
                             DictGet(st.image_popularity, image_ref_str, 0) + 1),
                 instance_names |-> st.instance_names \cup NamesOf(instance)])

\* No disk has a backing file.
BackingOfNone(names, ent) == {}

\* _list_backing_images: the backing file of the disk of directory ent, when
\* ent is an expected name, has a disk and the disk has a backing file.
BackingOf(names, ent) ==
    IF /\ ent \in names
       /\ inst_dirs[ent].disk = "disk"
       /\ inst_dirs[ent].backing # NoFile
    THEN {inst_dirs[ent].backing} ELSE {}

\* _list_backing_images: inuse_images, as a set.
list_backing_images(names) == UNION {BackingOf(names, ent) : ent \in DirNames}

(***************************************************************************)
(* The steps of a pass of host h.                                          *)
(***************************************************************************)
Set(f, h, v) == [f EXCEPT ![h] = v]

PassOutcome(h) ==
    [active |-> Range(active_base_files[h]),
     corrupt |-> Range(corrupt_base_files[h]),
     removable |-> Range(removable_base_files[h]),
     instances |-> all_instances[h],
     deleted |-> deleted[h],
     vlog |-> vlog[h],
     rmlog |-> rmlog[h],
     listing |-> scanned[h],
     ended |-> pc[h]]

\* The pass scans without the test of the base directory.
AlwaysScan == "scan"

\* verify_base_images: if not os.path.exists(base_dir): return
FirstStep == IF base_dir_exists THEN "scan" ELSE "done"

\* verify_base_images: _reset_state and the test of the base directory.
StartPass(h) ==
    /\ h \in hosts
    /\ pc[h] \in {"idle", "done", "failed"}
    /\ passes[h] < pass_limit
    /\ \E snapshot \in snapshots : all_instances' = Set(all_instances, h, snapshot)
    /\ passes' = Set(passes, h, passes[h] + 1)
    /\ prev' = Set(prev, h, IF passes[h] = 0 THEN NoOutcome ELSE PassOutcome(h))
    /\ used_images' = Set(used_images, h, <<>>)
    /\ image_popularity' = Set(image_popularity, h, <<>>)
    /\ instance_names' = Set(instance_names, h, {})
    /\ active_base_files' = Set(active_base_files, h, <<>>)
    /\ corrupt_base_files' = Set(corrupt_base_files, h, <<>>)
    /\ originals' = Set(originals, h, <<>>)
    /\ removable_base_files' = Set(removable_base_files, h, <<>>)
    /\ unexplained_images' = Set(unexplained_images, h, <<>>)
    /\ scanned' = Set(scanned, h, <<>>)
    /\ deleted' = Set(deleted, h, {})
    /\ touched' = Set(touched, h, {})
    /\ UNCHANGED last_utime
    /\ vlog' = Set(vlog, h, {})
    /\ rmlog' = Set(rmlog, h, {})
    /\ pc' = Set(pc, h, FirstStep)
    /\ UNCHANGED <<fsVars, now, lock, confVars, todo_images, img, gen_idx,
                   base_file, kind, stored, checksum_result, rm_idx>>

\* _list_base_images
ListBaseImages(h) ==
    /\ pc[h] = "scan"
    /\ LET found == list_base_images(ListDir)
       IN /\ unexplained_images' = Set(unexplained_images, h, found.unexplained)
          /\ originals' = Set(originals, h, found.originals)
          /\ scanned' = Set(scanned, h, found.unexplained)
    /\ pc' = Set(pc, h, "collect")
    /\ UNCHANGED <<fsVars, now, lock, confVars, used_images, image_popularity,
                   instance_names, active_base_files, corrupt_base_files,
                   removable_base_files, frameVars, passes, deleted, touched, last_utime,
                   vlog,
                   rmlog, prev>>

\* _list_running_instances; CONF.host is h.
ListRunningInstances(h) ==
    /\ pc[h] = "collect"
    /\ LET st == list_running_instances(all_instances[h], h,
                     [used_images |-> <<>>, image_popularity |-> <<>>,
                      instance_names |-> {}])
       IN /\ used_images' = Set(used_images, h, st.used_images)
          /\ image_popularity' = Set(image_popularity, h, st.image_popularity)
          /\ instance_names' = Set(instance_names, h, st.instance_names)
          /\ todo_images' = Set(todo_images, h, DOMAIN st.used_images)
    /\ pc' = Set(pc, h, "images")
    /\ UNCHANGED <<fsVars, now, lock, confVars, active_base_files,
                   corrupt_base_files, originals, removable_base_files,
                   unexplained_images, all_instances, img, gen_idx, base_file,
                   kind, stored, checksum_result, rm_idx, histVars>>

\* The pass goes from the loop over the images to the unknown files.
AfterImagesUnknown == "unknown"

\* verify_base_images: after the loop over used_images, the backing images.
AfterImages == "backing"

\* verify_base_images: for img in self.used_images (a dict: any order).
NextImage(h) ==
    /\ pc[h] = "images"
    /\ IF todo_images[h] = {}
       THEN /\ pc' = Set(pc, h, AfterImages)
            /\ UNCHANGED <<todo_images, img>>
       ELSE \E i \in todo_images[h] :
               /\ img' = Set(img, h, i)
               /\ todo_images' = Set(todo_images, h, todo_images[h] \ {i})
               /\ pc' = Set(pc, h, "find_original")
    /\ UNCHANGED <<fsVars, now, lock, confVars, mgrVars, all_instances,
                   gen_idx, base_file, kind, stored, checksum_result, rm_idx,
                   histVars>>

\* _find_base_file: the original file from glance.
FindOriginal(h) ==
    /\ pc[h] = "find_original"
    /\ LET candidate == Name(sha1_hexdigest(img[h]), <<>>)
       IN IF Exists(candidate)
          THEN /\ base_file' = Set(base_file, h, candidate)
               /\ kind' = Set(kind, h, "original")
               /\ pc' = Set(pc, h, "handle")
          ELSE /\ pc' = Set(pc, h, "find_small")
               /\ UNCHANGED <<base_file, kind>>
    /\ UNCHANGED <<fsVars, now, lock, confVars, mgrVars, all_instances,
                   todo_images, img, gen_idx, stored, checksum_result, rm_idx,
                   histVars>>

\* _find_base_file: the older naming style, fingerprint + '_sm'.  When the
\* generator goes on, the for loop takes an iterator of unexplained_images.
FindSmall(h) ==
    /\ pc[h] = "find_small"
    /\ LET candidate == Name(sha1_hexdigest(img[h]), <<"_", "s", "m">>)
       IN IF Exists(candidate)
          THEN /\ base_file' = Set(base_file, h, candidate)
               /\ kind' = Set(kind, h, "small")
               /\ pc' = Set(pc, h, "handle")
               /\ UNCHANGED gen_idx
          ELSE /\ pc' = Set(pc, h, "find_resized")
               /\ gen_idx' = Set(gen_idx, h, 0)
               /\ UNCHANGED <<base_file, kind>>
    /\ UNCHANGED <<fsVars, now, lock, confVars, mgrVars, all_instances,
                   todo_images, img, stored, checksum_result, rm_idx, histVars>>

\* The positions the list iterator of _find_base_file still visits: it has
\* consumed idx elements and reads the list as it is now.
IteratorPositions(list, idx) == (idx + 1)..Len(list)

\* _find_base_file: for img in self.unexplained_images, up to the next yield.
FindResized(h) ==
    /\ pc[h] = "find_resized"
    /\ LET list == unexplained_images[h]
           hits == {i \in IteratorPositions(list, gen_idx[h]) :
                        resize_re_match(sha1_hexdigest(img[h]), list[i])}
       IN IF hits = {}
          THEN /\ pc' = Set(pc, h, "images")
               /\ UNCHANGED <<base_file, kind, gen_idx>>
          ELSE LET i == CHOOSE j \in hits : \A k \in hits : j <= k
               IN /\ base_file' = Set(base_file, h, list[i])
                  /\ kind' = Set(kind, h, "resized")
                  /\ gen_idx' = Set(gen_idx, h, i)
                  /\ pc' = Set(pc, h, "handle")
    /\ UNCHANGED <<fsVars, now, lock, confVars, mgrVars, all_instances,
                   todo_images, img, stored, checksum_result, rm_idx, histVars>>

\* The verifier runs whatever the option says.
ChecksumsAlways == TRUE

\* _verify_checksum: if not CONF.checksum_base_images: return None
ChecksumsEnabled == checksum_base_images

\* _handle_base_image, up to the call of _verify_checksum, and
\* _verify_checksum up to the lock.
HandleBaseImage(h) ==
    /\ pc[h] = "handle"
    /\ unexplained_images' =
           Set(unexplained_images, h,
               IF In(base_file[h], unexplained_images[h])
               THEN list_remove(unexplained_images[h], base_file[h])
               ELSE unexplained_images[h])
    /\ IF Exists(base_file[h]) /\ ChecksumsEnabled
       THEN /\ pc' = Set(pc, h, "lock")
            /\ UNCHANGED checksum_result
       ELSE /\ pc' = Set(pc, h, "classify")
            /\ checksum_result' = Set(checksum_result, h, "None")
    /\ UNCHANGED <<fsVars, now, lock, confVars, used_images, image_popularity,
                   instance_names, active_base_files, corrupt_base_files,
                   originals, removable_base_files, all_instances, todo_images,
                   img, gen_idx, base_file, kind, stored, rm_idx, histVars>>

\* _verify_checksum: entering inner_verify_checksum takes the lock.
AcquireLock(h) ==
    /\ pc[h] = "lock"
    /\ synchronized_free(h, LockName(base_file[h]))
    /\ lock' = synchronized_enter(h, LockName(base_file[h]))
    /\ pc' = Set(pc, h, "read")
    /\ UNCHANGED <<fsVars, now, confVars, mgrVars, frameVars, histVars>>

VerifyEntry(h, result, hashed, wrote) ==
    [file |-> base_file[h], t |-> stored[h].t, ts |-> stored[h].ts,
     sha1 |-> stored[h].sha1, hashed |-> hashed, wrote |-> wrote,
     result |-> result]

\* A return that keeps the lock when an exception leaves the function.
verify_checksum_return_held(h, result) ==
    /\ lock' = IF result = "error" THEN lock
               ELSE synchronized_exit(h, LockName(base_file[h]))
    /\ checksum_result' = Set(checksum_result, h, result)
    /\ pc' = Set(pc, h, IF result = "error" THEN "failed" ELSE "classify")

\* return inner_verify_checksum(): the decorated function is left with a
\* result ("True", "False", "None") or by an exception ("error"), which
\* nothing catches before it leaves verify_base_images.
verify_checksum_return(h, result) ==
    /\ lock' = synchronized_exit(h, LockName(base_file[h]))
    /\ checksum_result' = Set(checksum_result, h, result)
    /\ pc' = Set(pc, h, IF result = "error" THEN "failed" ELSE "classify")

\* No stored checksum is recent.
checksum_never_recent(stored_timestamp, t) == FALSE

\* The test with <= in the place of <.
checksum_is_recent_inclusive(stored_timestamp, t) ==
    /\ stored_timestamp # NoTimestamp
    /\ t - stored_timestamp <= checksum_interval_seconds

\* inner_verify_checksum: the test that skips the hashing,
\* stored_timestamp and time.time() - stored_timestamp < interval
checksum_is_recent(stored_timestamp, t) ==
    /\ stored_timestamp # NoTimestamp
    /\ t - stored_timestamp < checksum_interval_seconds

\* A record written where no checksum is stored, whatever the argument.
WriteWhenMissingAlways == TRUE

\* inner_verify_checksum: if CONF.checksum_base_images and create_if_missing
WriteWhenMissing == checksum_base_images /\ create_arg

\* A record with the checksum of the file as it is at time t.
RehashedRecord(f, stored_checksum, t) == Record(hash_file(FileBytes(f)), t)

\* inner_verify_checksum: the record written for a checksum stored without
\* timestamp, write_stored_info(base_file, field='sha1', value=stored_checksum)
StampedRecord(f, stored_checksum, t) == Record(stored_checksum, t)

\* inner_verify_checksum: read_stored_checksum and the tests on the record.
ReadStoredChecksum(h) ==
    /\ pc[h] = "read"
    /\ LET f == base_file[h]
           rec == info[f]
           read == [sha1 |-> rec.sha1, ts |-> rec.ts, t |-> now]
           fresh == checksum_is_recent(rec.ts, now)
       IN /\ stored' = Set(stored, h, read)
          /\ IF rec.sha1 # NoValue
             THEN IF fresh
                  THEN /\ verify_checksum_return(h, "True")
                       /\ vlog' = Set(vlog, h, vlog[h] \cup
                              {[file |-> f, t |-> now, ts |-> rec.ts,
                                sha1 |-> rec.sha1, hashed |-> FALSE,
                                wrote |-> FALSE, result |-> "True"]})
                       /\ UNCHANGED info
                  ELSE /\ info' = IF rec.ts = NoTimestamp
                                  THEN [info EXCEPT ![f] =
                                            StampedRecord(f, rec.sha1, now)]
                                  ELSE info
                       /\ pc' = Set(pc, h, "hash")
                       /\ UNCHANGED <<lock, checksum_result, vlog>>
             ELSE IF WriteWhenMissing
                  THEN /\ pc' = Set(pc, h, "create")
                       /\ UNCHANGED <<lock, checksum_result, vlog, info>>
                  ELSE /\ verify_checksum_return(h, "None")
                       /\ vlog' = Set(vlog, h, vlog[h] \cup
                              {[file |-> f, t |-> now, ts |-> rec.ts,
                                sha1 |-> rec.sha1, hashed |-> FALSE,
                                wrote |-> FALSE, result |-> "None"]})
                       /\ UNCHANGED info
    /\ UNCHANGED <<base_dir_exists, base_dir, mtime, now, confVars,
                   mgrVars, all_instances, todo_images, img, gen_idx,
                   base_file,
                   kind, rm_idx, passes, scanned, deleted, touched, last_utime, rmlog,
                   prev>>

\* inner_verify_checksum: open(base_file), utils.hash_file and the
\* comparison with the stored checksum.
HashAndCompare(h) ==
    /\ pc[h] = "hash"
    /\ LET f == base_file[h]
           current_checksum == hash_file(FileBytes(f))
           result == IF ~Exists(f) THEN "error"
                     ELSE IF current_checksum # stored[h].sha1 THEN "False"
                     ELSE "True"
       IN /\ verify_checksum_return(h, result)
          /\ vlog' = Set(vlog, h, vlog[h] \cup
                         {VerifyEntry(h, result, Exists(f), stored[h].ts = NoTimestamp)})
    /\ UNCHANGED <<fsVars, now, confVars, mgrVars, all_instances, todo_images,
                   img, gen_idx, base_file, kind, stored, rm_idx, passes,
                   scanned, deleted, touched, last_utime, rmlog, prev>>

\* inner_verify_checksum: write_stored_checksum, when no checksum is stored.
WriteStoredChecksum(h) ==
    /\ pc[h] = "create"
    /\ LET f == base_file[h]
           result == IF ~Exists(f) THEN "error" ELSE "None"
       IN /\ info' = IF Exists(f)
                     THEN [info EXCEPT ![f] = Record(hash_file(FileBytes(f)), now)]
                     ELSE info
          /\ verify_checksum_return(h, result)
          /\ vlog' = Set(vlog, h, vlog[h] \cup
                         {VerifyEntry(h, result, Exists(f), Exists(f))})
    /\ UNCHANGED <<base_dir_exists, base_dir, mtime, now, confVars,
                   mgrVars, all_instances, todo_images, img, gen_idx,
                   base_file,
                   kind, stored, rm_idx, passes, scanned, deleted, touched, last_utime,
                   rmlog, prev>>

\* A refresh that leaves the modification time as it is.
os_utime_none(f, t) == mtime

\* os.utime(base_file, None): the modification time becomes the current time.
os_utime(f, t) == [mtime EXCEPT ![f] = t]

\* No image is in use.
ImageNeverInUse(h, img_id) == FALSE

\* _handle_base_image: image_in_use
ImageInUse(h, img_id) ==
    /\ img_id \in DOMAIN used_images[h]
    /\ (used_images[h][img_id][1] > 0 \/ used_images[h][img_id][2] > 0)

\* No result of the verifier makes an image bad.
ImageBadNever(result) == FALSE

\* _handle_base_image: image_bad = not checksum_result, unless it is None.
ImageBad(result) == result = "False"

\* _handle_base_image after _verify_checksum, and the statement of
\* verify_base_images that follows the call; the generator then goes on.
ClassifyBaseImage(h) ==
    /\ pc[h] = "classify"
    /\ LET f == base_file[h]
           image_bad == ImageBad(checksum_result[h])
           image_in_use == ImageInUse(h, img[h])
       IN /\ active_base_files' =
                 Set(active_base_files, h,
                     IF image_in_use THEN Append(active_base_files[h], f)
                     ELSE active_base_files[h])
          /\ corrupt_base_files' =
                 Set(corrupt_base_files, h,
                     IF image_bad THEN Append(corrupt_base_files[h], f)
                     ELSE corrupt_base_files[h])
          /\ removable_base_files' =
                 Set(removable_base_files, h,
                     IF image_in_use THEN removable_base_files[h]
                     ELSE Append(removable_base_files[h], f))
          \* virtutils.chown and os.utime(base_file, None)
          /\ mtime' = IF image_in_use /\ Exists(f)
                      THEN os_utime(f, now) ELSE mtime
          /\ last_utime' = IF image_in_use /\ Exists(f)
                           THEN [last_utime EXCEPT ![f] = now] ELSE last_utime
          /\ touched' = IF image_in_use /\ Exists(f)
                        THEN Set(touched, h, touched[h] \cup {f}) ELSE touched
          /\ originals' =
                 Set(originals, h,
                     IF kind[h] = "original" THEN Append(originals[h], f)
                     ELSE originals[h])
    /\ pc' = Set(pc, h, IF kind[h] = "original" THEN "find_small"
                        ELSE "find_resized")
    /\ gen_idx' = IF kind[h] = "small" THEN Set(gen_idx, h, 0) ELSE gen_idx
    /\ UNCHANGED <<base_dir_exists, base_dir, info, now, lock,
                   confVars, used_images, image_popularity, instance_names,
                   unexplained_images, all_instances, todo_images, img,
                   base_file, kind, stored, checksum_result, rm_idx, passes,
                   scanned, deleted, vlog, rmlog, prev>>

\* verify_base_images: _list_backing_images and the loop that adds the
\* backing files in use to the active files.
ListBackingImages(h) ==
    /\ pc[h] = "backing"
    /\ LET inuse_images == list_backing_images(instance_names[h])
       IN /\ unexplained_images' =
                 Set(unexplained_images, h,
                     SeqFilter(unexplained_images[h],
                               Range(unexplained_images[h]) \ inuse_images))
          /\ active_base_files' =
                 Set(active_base_files, h,
                     active_base_files[h] \o
                     SetToSeq(inuse_images \ Range(active_base_files[h])))
    /\ pc' = Set(pc, h, "unknown")
    /\ UNCHANGED <<fsVars, now, lock, confVars, used_images, image_popularity,
                   instance_names, corrupt_base_files, originals,
                   removable_base_files, frameVars, histVars>>

\* The removal loop runs whatever the option says.
RemovalAlways == TRUE

\* verify_base_images: if CONF.remove_unused_base_images
RemovalEnabled == remove_unused_base_images

\* verify_base_images: anything left is an unknown base image; then the
\* test that starts the removal loop.
UnknownBaseFiles(h) ==
    /\ pc[h] = "unknown"
    /\ LET removable == removable_base_files[h] \o unexplained_images[h]
       IN /\ removable_base_files' = Set(removable_base_files, h, removable)
          /\ IF removable # <<>> /\ RemovalEnabled
             THEN /\ pc' = Set(pc, h, "remove")
                  /\ rm_idx' = Set(rm_idx, h, 1)
             ELSE /\ pc' = Set(pc, h, "done")
                  /\ UNCHANGED rm_idx
    /\ UNCHANGED <<fsVars, now, lock, confVars, used_images, image_popularity,
                   instance_names, active_base_files, corrupt_base_files,
                   originals, unexplained_images, all_instances, todo_images,
                   img, gen_idx, base_file, kind, stored, checksum_result,
                   histVars>>

\* The resized minimum age for every file.
MaxAgeResized(h, f) == remove_unused_resized_minimum_age_seconds

\* _remove_base_file: maxage
MaxAge(h, f) ==
    IF In(f, originals[h]) THEN remove_unused_original_minimum_age_seconds
    ELSE remove_unused_resized_minimum_age_seconds

\* The comparison with > in the place of >=.
OlderThan(age, maxage) == age > maxage

\* _remove_base_file: the base file is old enough to remove.
OldEnough(age, maxage) == ~(age < maxage)

AfterRemoval(h) ==
    IF rm_idx[h] = Len(removable_base_files[h]) THEN "done" ELSE "remove"

\* _remove_base_file up to the decision: os.path.exists, os.path.getmtime,
\* time.time() and the comparison with maxage.
RemoveBaseFile(h) ==
    /\ pc[h] = "remove"
    /\ LET f == removable_base_files[h][rm_idx[h]]
           \* os.path.getmtime is not reached for a file that does not exist
           file_mtime == IF Exists(f) THEN mtime[f] ELSE NoTimestamp
           age == now - file_mtime
           maxage == MaxAge(h, f)
           outcome == IF ~Exists(f) THEN "absent"
                      ELSE IF OldEnough(age, maxage) THEN "removing"
                      ELSE "young"
       IN /\ rmlog' = Set(rmlog, h, rmlog[h] \cup
                          {[file |-> f, t |-> now, mtime |-> file_mtime,
                            age |-> age, maxage |-> maxage,
                            utime |-> IF Exists(f) THEN last_utime[f]
                                      ELSE NoTimestamp,
                            outcome |-> outcome]})
          /\ IF outcome = "removing"
             THEN /\ pc' = Set(pc, h, "unlink")
                  /\ UNCHANGED rm_idx
             ELSE /\ pc' = Set(pc, h, AfterRemoval(h))
                  /\ rm_idx' = Set(rm_idx, h, rm_idx[h] + 1)
    /\ UNCHANGED <<fsVars, now, lock, confVars, mgrVars, all_instances,
                   todo_images, img, gen_idx, base_file, kind, stored,
                   checksum_result, passes, scanned, deleted, touched, last_utime, vlog,
                   prev>>

\* An OSError of os.remove leaves verify_base_images.
remove_raises(h) == "failed"

\* _remove_base_file: except OSError: the error is logged and the function
\* returns to the removal loop.
remove_failed(h) == AfterRemoval(h)

\* A removal that waits while another host holds the hash lock of the file.
RemovalBlockedByLock(h, f) == lock[LockName(f)] \ {h} # {}

\* _remove_base_file: os.remove is called under no lock; nothing keeps host
\* h from removing file f.
RemovalBlocked(h, f) == FALSE

\* _remove_base_file: os.remove of the file and of its info file.  An
\* OSError (the file is gone, or the file system refuses the removal of the
\* file or of the info file) is caught.
UnlinkBaseFile(h) ==
    /\ pc[h] = "unlink"
    /\ LET f == removable_base_files[h][rm_idx[h]]
           signature == get_info_filename(f)
       IN /\ ~RemovalBlocked(h, f)
          /\ IF ~Exists(f) \/ f \in refuses
             THEN /\ pc' = Set(pc, h, remove_failed(h))
                  /\ UNCHANGED <<base_dir, info, deleted>>
             ELSE /\ base_dir' = list_remove(base_dir, f)
                  /\ deleted' = Set(deleted, h, deleted[h] \cup {f})
                  /\ IF info[f] # NoRecord /\ signature \in refuses
                     THEN /\ pc' = Set(pc, h, remove_failed(h))
                          /\ UNCHANGED info
                     ELSE /\ pc' = Set(pc, h, AfterRemoval(h))
                          /\ info' = [info EXCEPT ![f] = NoRecord]
    /\ rm_idx' = Set(rm_idx, h, rm_idx[h] + 1)
    /\ UNCHANGED <<base_dir_exists, mtime, now, lock, confVars,
                   mgrVars, all_instances, todo_images, img, gen_idx,
                   base_file, kind, stored, checksum_result, passes, scanned,
                   touched, last_utime, vlog, rmlog, prev>>

\* The clock is advanced where a pass starts and in front of the steps that
\* compare time.time() with a timestamp (the test of the checksum interval
\* and the test of the age of a file).
ClockReaders == {"scan", "read", "remove"}

\* time.time() advances.
Tick ==
    /\ now < MaxTime
    /\ \E h \in hosts : pc[h] \in ClockReaders
    /\ now' = now + 1
    /\ UNCHANGED <<fsVars, lock, confVars, mgrVars, pc, frameVars, histVars>>

Step(h) ==
    \/ StartPass(h)
    \/ ListBaseImages(h)
    \/ ListRunningInstances(h)
    \/ NextImage(h)
    \/ FindOriginal(h)
    \/ FindSmall(h)
    \/ FindResized(h)
    \/ HandleBaseImage(h)
    \/ AcquireLock(h)
    \/ ReadStoredChecksum(h)
    \/ HashAndCompare(h)
    \/ WriteStoredChecksum(h)
    \/ ClassifyBaseImage(h)
    \/ ListBackingImages(h)
    \/ UnknownBaseFiles(h)
    \/ RemoveBaseFile(h)
    \/ UnlinkBaseFile(h)

Next == Tick \/ \E h \in Hosts : Step(h)

\* One host runs passes one after the other.
Spec == Init /\ [][Next]_vars

\* The files of the two-pass and of the two-host specifications.
TwiceNames == {Fa, Fa_10, Fz_10}

\* The base directory holds at most n of the files of names, and at most
\* MaxRecords of them have a stored checksum.
FileSystemOf(names, n, t) ==
    /\ base_dir_exists = TRUE
    /\ base_dir \in Arrangements(names, n)
    /\ mtime = [f \in BaseNames |-> 1]
    /\ info \in [BaseNames -> InitialRecords \cup {NoRecord}]
    /\ \A f \in BaseNames : info[f] # NoRecord => In(f, base_dir)
    /\ Cardinality({f \in BaseNames : info[f] # NoRecord}) <= MaxRecords
    /\ now = t
    /\ lock = [f \in BaseNames |-> {}]

\* One host runs two passes one after the other.
InitTwice ==
    /\ FileSystemOf(TwiceNames, MaxFilesTwice, 1)
    /\ checksum_base_images \in BOOLEAN
    /\ remove_unused_base_images \in BOOLEAN
    /\ hosts = {"h1"}
    /\ pass_limit = MaxPassesTwice
    /\ snapshots = PassSnapshots
    /\ create_arg = create_if_missing
    /\ refuses = {}
    /\ ManagerInit

SpecTwice == InitTwice /\ [][Next]_vars

\* The files and the instance lists of the two-host specification.
HostsNames == {Fa, Fa_10}
HostsSnapshots == {<<>>, <<Instance("i1", "a", "h1", NoValue, "active")>>}

\* Two hosts share the base directory and the lock directory, and each runs
\* one pass.
InitHosts ==
    /\ FileSystemOf(HostsNames, MaxFilesHosts, MaxTime - 1)
    /\ checksum_base_images = TRUE
    /\ remove_unused_base_images = TRUE
    /\ hosts = Hosts
    /\ pass_limit = MaxPasses
    /\ snapshots = HostsSnapshots
    /\ create_arg = create_if_missing
    /\ refuses = {}
    /\ ManagerInit

SpecHosts == InitHosts /\ [][Next]_vars

\* The two hosts under fair scheduling: each host is a process of its own
\* that keeps taking the steps of its pass, and a host that waits for a lock
\* gets it when the lock is free again and again.
FairHosts ==
    \A h \in Hosts : WF_vars(Step(h)) /\ SF_vars(AcquireLock(h))

SpecHostsFair == InitHosts /\ [][Next]_vars /\ FairHosts

\* The names the file system may refuse to remove.
RefusedNames == {Fa_10, get_info_filename(Fz_10)}

\* One host runs one pass on a file system that refuses the removal of some
\* names.
InitRefuse ==
    /\ FileSystemOf(TwiceNames, MaxFilesRefuse, 1)
    /\ checksum_base_images \in BOOLEAN
    /\ remove_unused_base_images \in BOOLEAN
    /\ hosts = {"h1"}
    /\ pass_limit = MaxPasses
    /\ snapshots = PassSnapshots
    /\ create_arg = create_if_missing
    /\ refuses \in SUBSET RefusedNames
    /\ ManagerInit

SpecRefuse == InitRefuse /\ [][Next]_vars

\* The entries the scan may find: an original, resized files with one and
\* with two digits, a resized file of another fingerprint and a kernel.
ScanNames == {Fa, Fa_5, Fa_10, Fz_10, Kernel}

\* One host starts a pass and scans a base directory that holds at most
\* MaxFilesScan of the entries of ScanNames and the info files of those with
\* a stored checksum.
InitScan ==
    /\ base_dir_exists = TRUE
    /\ base_dir \in Arrangements(ScanNames, MaxFilesScan)
    /\ mtime = [f \in BaseNames |-> 1]
    /\ info \in [BaseNames -> InitialRecords \cup {NoRecord}]
    /\ \A f \in BaseNames : info[f] # NoRecord => In(f, base_dir)
    /\ Cardinality({f \in BaseNames : info[f] # NoRecord}) <= MaxRecords
    /\ now = 1
    /\ lock = [f \in BaseNames |-> {}]
    /\ checksum_base_images = TRUE
    /\ remove_unused_base_images = TRUE
    /\ hosts = {"h1"}
    /\ pass_limit = MaxPasses
    /\ snapshots = {<<>>}
    /\ create_arg = create_if_missing
    /\ refuses = {}
    /\ ManagerInit

NextScan == \E h \in Hosts : StartPass(h) \/ ListBaseImages(h)

SpecScan == InitScan /\ [][NextScan]_vars

\* The files and the instances of the specification of the shadow names:
\* instances of image a on host h1 in every task state, or resized.
ShadowNames == {Fa_10, Fz_10}

ShadowInstances ==
    {Instance(n, "a", "h1", ts, "active") :
        n \in InstanceNames,
        ts \in {RESIZE_PREP, RESIZE_MIGRATING, RESIZE_MIGRATED, RESIZE_FINISH,
                NoValue}}
    \cup {Instance(n, "a", "h1", NoValue, RESIZED) : n \in InstanceNames}

\* One host runs one pass, without checksums, for any list of at most
\* MaxInstancesShadow of these instances.
InitShadow ==
    /\ FileSystemOf(ShadowNames, MaxFilesShadow, 1)
    /\ checksum_base_images = FALSE
    /\ remove_unused_base_images = TRUE
    /\ hosts = {"h1"}
    /\ pass_limit = MaxPasses
    /\ snapshots = SeqsUpTo(ShadowInstances, MaxInstancesShadow)
    /\ create_arg = create_if_missing
    /\ refuses = {}
    /\ ManagerInit

NextShadow ==
    \/ Tick
    \/ \E h \in Hosts :
          \/ StartPass(h)
          \/ ListBaseImages(h)
          \/ ListRunningInstances(h)
          \/ NextImage(h)
          \/ FindOriginal(h)
          \/ FindSmall(h)
          \/ FindResized(h)
          \/ HandleBaseImage(h)
          \/ ClassifyBaseImage(h)
          \/ ListBackingImages(h)
          \/ UnknownBaseFiles(h)
          \/ RemoveBaseFile(h)
          \/ UnlinkBaseFile(h)

SpecShadow == InitShadow /\ [][NextShadow]_vars

\* The handling of one base file alone: _handle_base_image is entered for a
\* file of the base directory, with either value of create_if_missing, at
\* any time, for an image that the instance list uses or not.
InitVerify ==
    /\ \E t \in 1..MaxTime : FileSystemOf(TwiceNames, MaxFilesVerify, t)
    /\ checksum_base_images \in BOOLEAN
    /\ remove_unused_base_images = FALSE
    /\ hosts = {"h1"}
    /\ pass_limit = MaxPasses
    /\ snapshots = {}
    /\ create_arg \in BOOLEAN
    /\ refuses = {}
    /\ \E snapshot \in HostsSnapshots :
          LET st == list_running_instances(snapshot, "h1",
                        [used_images |-> <<>>, image_popularity |-> <<>>,
                         instance_names |-> {}])
          IN /\ all_instances = [h \in Hosts |-> IF h = "h1" THEN snapshot ELSE <<>>]
             /\ used_images = [h \in Hosts |-> IF h = "h1" THEN st.used_images ELSE <<>>]
             /\ image_popularity =
                    [h \in Hosts |-> IF h = "h1" THEN st.image_popularity ELSE <<>>]
             /\ instance_names =
                    [h \in Hosts |-> IF h = "h1" THEN st.instance_names ELSE {}]
    /\ active_base_files = [h \in Hosts |-> <<>>]
    /\ corrupt_base_files = [h \in Hosts |-> <<>>]
    /\ originals = [h \in Hosts |-> <<>>]
    /\ removable_base_files = [h \in Hosts |-> <<>>]
    /\ unexplained_images = [h \in Hosts |-> IF h = "h1" THEN base_dir ELSE <<>>]
    /\ pc = [h \in Hosts |-> IF h = "h1" THEN "handle" ELSE "idle"]
    /\ todo_images = [h \in Hosts |-> {}]
    /\ img = [h \in Hosts |-> IF h = "h1" THEN "a" ELSE NoValue]
    /\ gen_idx = [h \in Hosts |-> 0]
    /\ \E f \in Range(base_dir) :
           base_file = [h \in Hosts |-> IF h = "h1" THEN f ELSE NoFile]
    /\ kind = [h \in Hosts |-> IF h = "h1" THEN "resized" ELSE NoValue]
    /\ stored = [h \in Hosts |-> NothingRead]
    /\ checksum_result = [h \in Hosts |-> NoValue]
    /\ rm_idx = [h \in Hosts |-> 0]
    /\ passes = [h \in Hosts |-> IF h = "h1" THEN 1 ELSE 0]
    /\ scanned = [h \in Hosts |-> IF h = "h1" THEN base_dir ELSE <<>>]
    /\ deleted = [h \in Hosts |-> {}]
    /\ touched = [h \in Hosts |-> {}]
    /\ last_utime = [f \in BaseNames |-> NoTimestamp]
    /\ vlog = [h \in Hosts |-> {}]
    /\ rmlog = [h \in Hosts |-> {}]
    /\ prev = [h \in Hosts |-> NoOutcome]

NextVerify ==
    \/ Tick
    \/ \E h \in Hosts :
          \/ HandleBaseImage(h)
          \/ AcquireLock(h)
          \/ ReadStoredChecksum(h)
          \/ HashAndCompare(h)
          \/ WriteStoredChecksum(h)
          \/ ClassifyBaseImage(h)

SpecVerify == InitVerify /\ [][NextVerify]_vars

\* The usage collection alone, on every snapshot of at most MaxInstances
\* instances: the state is that of a pass which has scanned an empty base
\* directory.
InitUsage ==
    /\ base_dir_exists = TRUE
    /\ base_dir = <<>>
    /\ mtime = [n \in BaseNames |-> 1]
    /\ info = [n \in BaseNames |-> NoRecord]
    /\ now = 1
    /\ lock = [n \in BaseNames |-> {}]
    /\ checksum_base_images = FALSE
    /\ remove_unused_base_images = TRUE
    /\ hosts = {"h1"}
    /\ pass_limit = 1
    /\ snapshots = {}
    /\ create_arg = create_if_missing
    /\ refuses = {}
    /\ used_images = [h \in Hosts |-> <<>>]
    /\ image_popularity = [h \in Hosts |-> <<>>]
    /\ instance_names = [h \in Hosts |-> {}]
    /\ active_base_files = [h \in Hosts |-> <<>>]
    /\ corrupt_base_files = [h \in Hosts |-> <<>>]
    /\ originals = [h \in Hosts |-> <<>>]
    /\ removable_base_files = [h \in Hosts |-> <<>>]
    /\ unexplained_images = [h \in Hosts |-> <<>>]
    /\ pc = [h \in Hosts |-> IF h = "h1" THEN "collect" ELSE "idle"]
    /\ \E snapshot \in SeqsUpTo(UsageInstances, MaxInstances) :
           all_instances = [h \in Hosts |-> IF h = "h1" THEN snapshot ELSE <<>>]
    /\ todo_images = [h \in Hosts |-> {}]
    /\ img = [h \in Hosts |-> NoValue]
    /\ gen_idx = [h \in Hosts |-> 0]
    /\ base_file = [h \in Hosts |-> NoFile]
    /\ kind = [h \in Hosts |-> NoValue]
    /\ stored = [h \in Hosts |-> NothingRead]
    /\ checksum_result = [h \in Hosts |-> NoValue]
    /\ rm_idx = [h \in Hosts |-> 0]
    /\ passes = [h \in Hosts |-> IF h = "h1" THEN 1 ELSE 0]
    /\ scanned = [h \in Hosts |-> <<>>]
    /\ deleted = [h \in Hosts |-> {}]
    /\ touched = [h \in Hosts |-> {}]
    /\ last_utime = [f \in BaseNames |-> NoTimestamp]
    /\ vlog = [h \in Hosts |-> {}]
    /\ rmlog = [h \in Hosts |-> {}]
    /\ prev = [h \in Hosts |-> NoOutcome]

NextUsage == \E h \in Hosts : ListRunningInstances(h)

SpecUsage == InitUsage /\ [][NextUsage]_vars

(***************************************************************************)
(* The claims.  A pass of host h has ended normally when pc[h] = "done".   *)
(***************************************************************************)
\* File f is a candidate of image id x: its fingerprint, fingerprint_sm or
\* fingerprint_<digits>.
IsCandidateOf(x, f) == f.pre = sha1_hexdigest(x) /\ IsImageSuffix(f.suf)

\* File f is referenced by the instance snapshot of the pass of host h.
ReferencedBySnapshot(h, f) ==
    \E x \in DOMAIN used_images[h] : IsCandidateOf(x, f)

Active(h) == Range(active_base_files[h])
Removable(h) == Range(removable_base_files[h])
Corrupt(h) == Range(corrupt_base_files[h])
Unexplained(h) == Range(unexplained_images[h])

\* C1: a pass never deletes a base file named F, F_sm or F_<digits> for the
\* fingerprint F of an image id of the usage map of that pass.
C1_ReferencedFileNeverDeleted ==
    \A h \in Hosts : \A f \in deleted[h] : ~ReferencedBySnapshot(h, f)

\* C2: at the end of a pass every candidate of a used image that the scan
\* found in the base directory (F, F_sm and every F_<digits> of the
\* unexplained working set) is in the active set.
C2_EveryCandidateActive ==
    \A h \in Hosts :
        pc[h] = "done" =>
            \A f \in Range(scanned[h]) :
                ReferencedBySnapshot(h, f) => f \in Active(h)

\* The backing files of the disks of the expected instance names, as the
\* instance directories hold them.
BackingFilesInUse(h) ==
    {inst_dirs[d].backing : d \in {e \in DirNames :
        /\ e \in instance_names[h]
        /\ inst_dirs[e].disk = "disk"
        /\ inst_dirs[e].backing # NoFile}}

\* C3: at the end of a pass a scanned base file that is the candidate of no
\* image id of the usage map but is the backing file of the disk of an
\* expected instance name is active, is not unexplained, is not removable and
\* was not deleted by the pass.
C3_BackingChainRescue ==
    \A h \in Hosts :
        pc[h] = "done" =>
            \A f \in Range(scanned[h]) :
                (~ReferencedBySnapshot(h, f) /\ f \in BackingFilesInUse(h)) =>
                    /\ f \in Active(h)
                    /\ f \notin Unexplained(h)
                    /\ f \notin Removable(h)
                    /\ f \notin deleted[h]
                    /\ Exists(f)

\* C3 witness: a pass with removal enabled ended with Fz_10 rescued by a
\* backing chain although it was old enough to be removed.
C3_Witness ==
    /\ pc["h1"] = "done"
    /\ remove_unused_base_images
    /\ In(Fz_10, scanned["h1"])
    /\ ~ReferencedBySnapshot("h1", Fz_10)
    /\ Fz_10 \in BackingFilesInUse("h1")
    /\ Fz_10 \in Active("h1")
    /\ now - mtime[Fz_10] >= remove_unused_resized_minimum_age_seconds
    /\ deleted["h1"] # {}

\* The removal attempts of the pass of host h for file f.
Attempts(h, f) == {e \in rmlog[h] : e.file = f}

\* C4: at the end of a pass a scanned file shaped like a derived image that
\* is the candidate of no used image and the backing file of no expected
\* instance is removable; with removal enabled the pass attempted its
\* removal, and deleted it when its age had reached
\* remove_unused_resized_minimum_age_seconds.
C4_UnknownFileReclaimed ==
    \A h \in Hosts :
        pc[h] = "done" =>
            \A f \in Range(scanned[h]) :
                (/\ IsDerivedEntry(f)
                 /\ ~ReferencedBySnapshot(h, f)
                 /\ f \notin BackingFilesInUse(h)) =>
                    /\ f \in Removable(h)
                    /\ remove_unused_base_images =>
                         /\ Attempts(h, f) # {}
                         /\ \A e \in Attempts(h, f) :
                               /\ e.age = e.t - e.mtime
                               /\ e.age >= remove_unused_resized_minimum_age_seconds
                                    => (f \in deleted[h] /\ ~Exists(f))

\* C4 witness: image a is in use, and the unknown file Fz_10 was deleted at
\* the age of exactly the minimum.
C4_Witness ==
    /\ pc["h1"] = "done"
    /\ "a" \in DOMAIN used_images["h1"]
    /\ Fz_10 \in deleted["h1"]
    /\ Fz_10 \notin BackingFilesInUse("h1")
    /\ \E e \in Attempts("h1", Fz_10) :
           e.age = remove_unused_resized_minimum_age_seconds

\* The minimum age of file f in the pass of host h, as the claim states it.
Threshold(h, f) ==
    IF f \in Range(originals[h]) THEN remove_unused_original_minimum_age_seconds
    ELSE remove_unused_resized_minimum_age_seconds

\* C5: a removal attempt on an existing file compares age = now - mtime
\* with the threshold of the file (the original minimum age for a file of
\* originals, the resized minimum age for any other); at the end of the pass
\* the file is deleted iff the age had reached the threshold, and a retained
\* file still exists with the mtime it had.
C5_AgeGatedReclamation ==
    \A h \in Hosts :
        pc[h] = "done" =>
            \A e \in rmlog[h] :
                e.outcome # "absent" =>
                    /\ e.age = e.t - e.mtime
                    /\ e.maxage = Threshold(h, e.file)
                    /\ (e.age >= Threshold(h, e.file)) <=> (e.file \in deleted[h])
                    /\ e.file \in deleted[h] => ~Exists(e.file)
                    /\ e.file \notin deleted[h] =>
                           (Exists(e.file) /\ mtime[e.file] = e.mtime)

\* An original was removed at the age of exactly the original minimum age.
OriginalRemovedAtThreshold ==
    /\ pc["h1"] = "done"
    /\ \E e \in rmlog["h1"] :
           /\ e.file \in Range(originals["h1"])
           /\ e.age = remove_unused_original_minimum_age_seconds
           /\ e.file \in deleted["h1"]

\* C5 witness: in one pass an original was retained at the age of its
\* threshold minus one, an age at which a file that is no original was
\* removed, that age being exactly the resized minimum age.
C5_Witness ==
    /\ pc["h1"] = "done"
    /\ \E e \in rmlog["h1"] :
           /\ e.file \in Range(originals["h1"])
           /\ e.age = remove_unused_original_minimum_age_seconds - 1
           /\ e.file \notin deleted["h1"]
    /\ \E e \in rmlog["h1"] :
           /\ e.file \notin Range(originals["h1"])
           /\ e.age = remove_unused_resized_minimum_age_seconds
           /\ e.file \in deleted["h1"]

\* The usage collection of host h has run.
Collected(h) == pc[h] \notin {"idle", "scan", "collect"}

\* C7: once the usage is collected, the name of every instance of the
\* snapshot is in instance_names, and so is name + '_resize' for every
\* instance whose task state is resize_prep, resize_migrating or
\* resize_migrated, or whose vm_state is resized.
C7_ResizeShadow ==
    \A h \in Hosts :
        Collected(h) =>
            \A i \in Range(all_instances[h]) :
                /\ i.name \in instance_names[h]
                /\ (\/ i.task_state \in {RESIZE_PREP, RESIZE_MIGRATING, RESIZE_MIGRATED}
                    \/ i.vm_state = RESIZED)
                       => resize_name(i.name) \in instance_names[h]

\* C7 witness: the only instance is i1, without task and in vm_state
\* resized, and both i1 and i1_resize are expected names.
C7_Witness ==
    /\ Collected("h1")
    /\ Len(all_instances["h1"]) = 1
    /\ all_instances["h1"][1].name = "i1"
    /\ all_instances["h1"][1].vm_state = RESIZED
    /\ all_instances["h1"][1].task_state = NoValue
    /\ instance_names["h1"] = {"i1", "i1_resize"}

\* The verifications host h finished in its running and its previous pass.
Verifications(h) == vlog[h] \cup prev[h].vlog

\* What the comparison of the hash of file f with the digest sha1 gives.
Comparison(f, sha1) == IF hash_file(FileBytes(f)) = sha1 THEN "True" ELSE "False"

\* C6: with checksum verification enabled, a verification that reads at time
\* t a digest record with timestamp T returns ok without hashing the file
\* when t < T + checksum_interval_seconds (t = T + interval - 1 included),
\* and hashes the file and returns the result of the comparison with the
\* stored digest when t >= T + checksum_interval_seconds (t = T + interval
\* included).
C6_IntegrityTTL ==
    \A h \in Hosts :
        \A e \in Verifications(h) :
            (e.sha1 # NoValue /\ e.ts # NoTimestamp) =>
                /\ checksum_base_images
                /\ e.t <= e.ts + checksum_interval_seconds - 1 =>
                       (~e.hashed /\ e.result = "True")
                /\ e.t >= e.ts + checksum_interval_seconds =>
                       (e.hashed /\ e.result = Comparison(e.file, e.sha1))

\* C6 witness: the first pass read the record of a file at T + interval - 1
\* and returned ok without hashing; the second pass read the same record at
\* T + interval, hashed the file and found that the digest does not match.
C6_Witness ==
    \E e1 \in prev["h1"].vlog, e2 \in vlog["h1"] :
        /\ e1.file = e2.file
        /\ e1.ts # NoTimestamp
        /\ e2.ts = e1.ts
        /\ e2.sha1 = e1.sha1
        /\ e1.t = e1.ts + checksum_interval_seconds - 1
        /\ ~e1.hashed
        /\ e1.result = "True"
        /\ e2.t = e2.ts + checksum_interval_seconds
        /\ e2.hashed
        /\ e2.result = "False"

\* Host h has ended its second pass, which was called with the instances of
\* the first; both passes ran to their end.
Consecutive(h) ==
    /\ passes[h] = 2
    /\ pc[h] = "done"
    /\ prev[h].ended = "done"
    /\ prev[h].instances = all_instances[h]

\* The files host h's previous pass retained as too young.
RetainedYoung(h) == {e.file : e \in {x \in prev[h].rmlog : x.outcome = "young"}}

\* C8 as stated: two consecutive passes with the same instances give the
\* same active, corrupt and removable sets and the second deletes no file.
C8_Idempotence ==
    \A h \in Hosts :
        Consecutive(h) =>
            /\ Active(h) = prev[h].active
            /\ Corrupt(h) = prev[h].corrupt
            /\ Removable(h) = prev[h].removable
            /\ deleted[h] = {}

\* C8 amended: of two consecutive passes with the same instances, the second
\* does not scan the files the first deleted.  When the first deleted no
\* file, both scan the same files and have the same active and removable
\* sets; the second deletes only removable files the first retained as too
\* young, at an age that has reached the threshold; a file corrupt in the
\* second pass only had its hashing skipped in the first, and a file corrupt
\* in the first pass only had a record without timestamp.
C8_RepeatedPass ==
    \A h \in Hosts :
        Consecutive(h) =>
            /\ \A f \in prev[h].deleted : ~In(f, scanned[h])
            /\ prev[h].deleted = {} =>
                /\ scanned[h] = prev[h].listing
                /\ Active(h) = prev[h].active
                /\ Removable(h) = prev[h].removable
                /\ deleted[h] \subseteq RetainedYoung(h) \cap Removable(h)
                /\ \A e \in rmlog[h] :
                       e.file \in deleted[h] => e.age >= e.maxage
                /\ \A f \in Corrupt(h) \ prev[h].corrupt :
                       \E e \in prev[h].vlog :
                           e.file = f /\ ~e.hashed /\ e.result = "True"
                /\ \A f \in prev[h].corrupt \ Corrupt(h) :
                       \E e \in prev[h].vlog :
                           e.file = f /\ e.ts = NoTimestamp /\ e.result = "False"

\* C8 witness: the first pass deleted nothing and retained Fz_10 as too
\* young; the second pass, with the same instances, deleted it.
C8_Witness ==
    /\ Consecutive("h1")
    /\ prev["h1"].deleted = {}
    /\ Fz_10 \in RetainedYoung("h1")
    /\ Fz_10 \in prev["h1"].removable
    /\ deleted["h1"] = {Fz_10}
    /\ Active("h1") # {}

\* Host h is inside the sequence read record / hash / compare / write record.
Verifying(h) == pc[h] \in {"read", "hash", "create"}

\* C9: at most one host at a time is inside the verification sequence of a
\* base file name, and a host that waits for the lock of its file is kept
\* out by a host that verifies a file of the same name only: verifications
\* of different files do not exclude each other.
C9_MutualExclusion ==
    /\ \A g, h \in Hosts :
           (g # h /\ Verifying(g) /\ Verifying(h)) => base_file[g] # base_file[h]
    /\ \A h \in Hosts :
           (pc[h] = "lock" /\ ~ENABLED AcquireLock(h)) =>
               \E g \in Hosts \ {h} :
                   Verifying(g) /\ base_file[g] = base_file[h]

\* C9 witness: h1 hashes Fa_10 while h2 waits for the lock of Fa_10.
C9_Witness ==
    /\ pc["h1"] = "hash"
    /\ base_file["h1"] = Fa_10
    /\ pc["h2"] = "lock"
    /\ base_file["h2"] = Fa_10
    /\ ~ENABLED AcquireLock("h2")

\* C10: a host holds the lock of a name exactly while it is inside the
\* verification sequence of the file of that name: the lock is released
\* when the verifier returns ok, failed or no-record and when an error
\* leaves it, and no lock is held while scanning, collecting usage,
\* resolving backing chains or removing.
C10_LockScope ==
    \A h \in Hosts :
        \A n \in BaseNames :
            h \in lock[LockName(n)] <=> (Verifying(h) /\ base_file[h] = n)

\* C10 witness: the pass of h1 failed in the hashing of a file that h2 had
\* removed, and h1 holds no lock.
C10_Witness ==
    /\ pc["h1"] = "failed"
    /\ \E e \in vlog["h1"] : e.result = "error"
    /\ base_file["h1"] \in deleted["h2"]
    /\ \A n \in BaseNames : "h1" \notin lock[n]

\* C11 as stated: a pass in which the verification of a file ended on an
\* error (the file cannot be read or hashed) is not aborted.
C11_FailureIsolated ==
    \A h \in Hosts :
        (\E e \in vlog[h] : e.result = "error") => pc[h] # "failed"

\* The files whose verification returned failed in the pass of host h.
FailedFiles(h) == {e.file : e \in {x \in vlog[h] : x.result = "False"}}

\* C12 as stated: when the verifier has returned failed for a file, the file
\* exists and its record is the record the verifier read.
C12_RecordUntouched ==
    \A h \in Hosts :
        (pc[h] = "classify" /\ checksum_result[h] = "False") =>
            /\ Exists(base_file[h])
            /\ info[base_file[h]] = Record(stored[h].sha1, stored[h].ts)

\* C12 amended: the verifier returns failed exactly when it hashed the file
\* and the hash differs from the stored digest; the file then exists and
\* its record keeps the stored digest, with the timestamp it had or, when it
\* had none, with the time of the verification; at the end of the pass the
\* corrupt set is the set of the files found failed, every corrupt file is
\* active and exists, and none was deleted by the pass.
C12_CorruptReported ==
    \A h \in Hosts :
        /\ (pc[h] = "classify" /\ checksum_result[h] = "False") =>
               /\ Exists(base_file[h])
               /\ info[base_file[h]] =
                      Record(stored[h].sha1,
                             IF stored[h].ts = NoTimestamp THEN stored[h].t
                             ELSE stored[h].ts)
        /\ \A e \in vlog[h] :
               e.result = "False" <=>
                   (e.hashed /\ e.sha1 # NoValue
                             /\ hash_file(FileBytes(e.file)) # e.sha1)
        /\ pc[h] = "done" =>
               /\ Corrupt(h) = FailedFiles(h)
               /\ Corrupt(h) \subseteq Active(h)
               /\ Corrupt(h) \cap deleted[h] = {}
               /\ \A f \in Corrupt(h) : Exists(f)

\* C12 witness: a pass that deleted a file ended with Fa_10 corrupt and
\* active; its record had no timestamp and now has the stored digest and
\* the time of the verification.
C12_Witness ==
    /\ pc["h1"] = "done"
    /\ deleted["h1"] # {}
    /\ Fa_10 \in Corrupt("h1") \cap Active("h1")
    /\ \E e \in vlog["h1"] :
           /\ e.file = Fa_10
           /\ e.result = "False"
           /\ e.ts = NoTimestamp
           /\ info[Fa_10] = Record(e.sha1, e.t)

\* C13 as stated: at the end of a pass every active file that exists was
\* refreshed with os.utime by that pass.
C13_ActiveRefreshed ==
    \A h \in Hosts :
        pc[h] = "done" =>
            \A f \in Active(h) : Exists(f) => f \in touched[h]

\* C14: when checksum_base_images is false no host ever waits for or holds
\* a hash lock, reads a record, hashes a file or writes a record: no
\* verification is logged, the verifier's result is None for every handled
\* file, and the corrupt set is empty.
C14_VerifierDisabled ==
    ~checksum_base_images =>
        /\ \A n \in BaseNames : lock[LockName(n)] = {}
        /\ \A h \in Hosts :
               /\ pc[h] \notin {"lock", "read", "hash", "create"}
               /\ stored[h] = NothingRead
               /\ vlog[h] = {}
               /\ checksum_result[h] \in {NoValue, "None"}
               /\ Corrupt(h) = {}

\* C14 witness: with checksums disabled a pass ended with Fa_10 handled and
\* active; the stored digest of Fa_10 is not the digest of the file, and
\* the record is as it was.
C14_Witness ==
    /\ ~checksum_base_images
    /\ pc["h1"] = "done"
    /\ Fa_10 \in Active("h1") \cap touched["h1"]
    /\ info[Fa_10] = Record("d0", NoTimestamp)
    /\ hash_file(FileBytes(Fa_10)) # "d0"
    /\ Corrupt("h1") = {}

\* C15: when remove_unused_base_images is false a pass never reaches the
\* removal loop: it attempts and performs no removal, every scanned file
\* still exists and every record the verifier read is still there; the
\* removable set is computed all the same: at the end of the pass it holds
\* the files left unexplained, among them every scanned file that is the
\* candidate of no used image and the backing file of no expected instance.
C15_RemovalDisabled ==
    ~remove_unused_base_images =>
        \A h \in Hosts :
            /\ pc[h] \notin {"remove", "unlink"}
            /\ rmlog[h] = {}
            /\ deleted[h] = {}
            /\ \A f \in Range(scanned[h]) : Exists(f)
            /\ \A e \in vlog[h] : e.sha1 # NoValue => info[e.file] # NoRecord
            /\ pc[h] = "done" =>
                   /\ Removable(h) = Unexplained(h)
                   /\ \A f \in Range(scanned[h]) :
                          (~ReferencedBySnapshot(h, f) /\ f \notin BackingFilesInUse(h))
                              => f \in Removable(h)

\* C15 witness: with removal disabled a pass ended with Fz_10 and its
\* record in place although Fz_10 is removable and older than both minimum
\* ages.
C15_Witness ==
    /\ ~remove_unused_base_images
    /\ pc["h1"] = "done"
    /\ Fz_10 \in Removable("h1")
    /\ Exists(Fz_10)
    /\ info[Fz_10] # NoRecord
    /\ now - mtime[Fz_10] >= remove_unused_original_minimum_age_seconds

\* C16: when the base directory does not exist a pass ends normally right
\* after the reset of its state: the host is never inside a step of the
\* pass, the usage map and the active, corrupt, removable and unexplained
\* sets are empty, and nothing was scanned, verified, refreshed or removed.
C16_NoBaseDirectory ==
    ~base_dir_exists =>
        \A h \in Hosts :
            /\ pc[h] \in {"idle", "done"}
            /\ passes[h] > 0 => pc[h] = "done"
            /\ used_images[h] = <<>>
            /\ Active(h) = {}
            /\ Corrupt(h) = {}
            /\ Removable(h) = {}
            /\ Unexplained(h) = {}
            /\ scanned[h] = <<>>
            /\ vlog[h] = {}
            /\ rmlog[h] = {}
            /\ touched[h] = {}
            /\ deleted[h] = {}

\* C16 witness: there is no base directory, and a pass called with an
\* instance whose disk has a backing file has ended.
C16_Witness ==
    /\ ~base_dir_exists
    /\ passes["h1"] = 1
    /\ pc["h1"] = "done"
    /\ Len(all_instances["h1"]) = 1
    /\ BackingOf({"i1"}, "i1") # {}

\* C17: a refused removal never aborts the pass, and at the end of a pass
\* with removal enabled every entry of the removable list was examined;
\* an entry found old enough was removed unless the file system refuses its
\* removal, in which case it still exists; the refused removal of an info
\* file leaves the record behind the removed file.
C17_BestEffortRemoval ==
    \A h \in Hosts :
        /\ pc[h] # "failed"
        /\ (pc[h] = "done" /\ remove_unused_base_images) =>
               \A f \in Removable(h) :
                   /\ Attempts(h, f) # {}
                   /\ \A e \in Attempts(h, f) :
                          e.outcome = "removing" =>
                              IF f \in refuses
                              THEN Exists(f) /\ f \notin deleted[h]
                              ELSE /\ ~Exists(f)
                                   /\ f \in deleted[h]
                                   /\ get_info_filename(f) \notin refuses
                                          => info[f] = NoRecord

\* C17 witness: the removal of Fa_10 was refused, then Fz_10 was removed
\* while the removal of its info file was refused, then Fa was removed.
C17_Witness ==
    /\ pc["h1"] = "done"
    /\ removable_base_files["h1"] = <<Fa_10, Fz_10, Fa>>
    /\ refuses = RefusedNames
    /\ \A f \in {Fa_10, Fz_10, Fa} :
           \E e \in Attempts("h1", f) : e.outcome = "removing"
    /\ Exists(Fa_10)
    /\ deleted["h1"] = {Fz_10, Fa}
    /\ info[Fz_10] # NoRecord

\* C18: the removal of a base file takes no lock: a host that has found a
\* file old enough holds no hash lock and its os.remove can always run,
\* whatever hash locks the other hosts hold, so nothing keeps a host from
\* deleting a file that another host has in its active files or verifies
\* under the hash lock.
C18_RemovalUncoordinated ==
    \A h \in Hosts :
        pc[h] \in {"remove", "unlink"} =>
            /\ \A n \in BaseNames : h \notin lock[LockName(n)]
            /\ pc[h] = "remove" => ENABLED RemoveBaseFile(h)
            /\ pc[h] = "unlink" => ENABLED UnlinkBaseFile(h)

\* C18 witness: h2 found Fa_10 old enough; h1 then handled Fa_10 as the
\* file of a used image, refreshed it and put it in its active files; h2
\* has removed it since, while the pass of h1 goes on.
C18_Witness ==
    /\ Fa_10 \in deleted["h2"]
    /\ ~Exists(Fa_10)
    /\ Fa_10 \in Active("h1") \cap touched["h1"]
    /\ pc["h1"] \notin {"idle", "done", "failed"}
    /\ \E e \in Attempts("h2", Fa_10) :
           e.outcome = "removing" /\ e.t <= mtime[Fa_10]

\* A host deleted a file that another host verifies under the hash lock.
DeletedUnderHashLock ==
    /\ Verifying("h1")
    /\ "h1" \in lock[LockName(base_file["h1"])]
    /\ base_file["h1"] \in deleted["h2"]


\* C19: with checksum_base_images set, when the verifier reads no stored
\* checksum for a file it returns None and compares nothing; with
\* create_if_missing it hashes the file once and writes a record with that
\* hash and the time of the call while it holds the lock of the file, and
\* without create_if_missing it hashes nothing and leaves the file without
\* a record; the file does not enter corrupt_base_files.
C19_NoRecordOutcome ==
    \A h \in Hosts :
        LET f == base_file[h]
            no_record == stored[h].t > 0 /\ stored[h].sha1 = NoValue
        IN /\ (pc[h] = "create") =>
                  /\ no_record /\ create_arg /\ checksum_base_images
                  /\ h \in lock[LockName(f)]
                  /\ info[f] = NoRecord
           /\ (no_record /\ pc[h] \notin {"read", "create"}) =>
                  /\ checksum_base_images
                  /\ checksum_result[h] = "None"
                  /\ vlog[h] = {[file |-> f, t |-> stored[h].t,
                                 ts |-> NoTimestamp, sha1 |-> NoValue,
                                 hashed |-> create_arg, wrote |-> create_arg,
                                 result |-> "None"]}
                  /\ info[f] = IF create_arg
                               THEN Record(hash_file(FileBytes(f)), stored[h].t)
                               ELSE NoRecord
                  /\ ~In(f, corrupt_base_files[h])

\* C19 witness: the handling of Fa_10 ended; no checksum was stored for it,
\* create_if_missing was set, and the file now has a record with its hash
\* and the time of the call, and is not corrupt.
C19_Witness ==
    /\ pc["h1"] = "find_resized"
    /\ base_file["h1"] = Fa_10
    /\ create_arg
    /\ stored["h1"].t > 0 /\ stored["h1"].sha1 = NoValue
    /\ checksum_result["h1"] = "None"
    /\ info[Fa_10] = Record(hash_file(FileBytes(Fa_10)), stored["h1"].t)
    /\ ~In(Fa_10, corrupt_base_files["h1"])

\* The handling of Fa_10 ended without create_if_missing: nothing was
\* written.
C19_NothingWritten ==
    /\ pc["h1"] = "find_resized"
    /\ base_file["h1"] = Fa_10
    /\ ~create_arg
    /\ stored["h1"].t > 0 /\ stored["h1"].sha1 = NoValue
    /\ info[Fa_10] = NoRecord

\* C20: when the stored record of a file has a checksum and no timestamp,
\* the verifier writes the record again with the stored checksum, not the
\* hash of the file, and the time of the call, then hashes the file in the
\* same call and returns True when the hash equals the stored checksum and
\* False when it differs.
C20_LegacyUpgrade ==
    \A h \in Hosts :
        LET f == base_file[h]
            legacy == /\ stored[h].t > 0
                      /\ stored[h].sha1 # NoValue
                      /\ stored[h].ts = NoTimestamp
        IN /\ (legacy /\ pc[h] # "read") =>
                  info[f] = Record(stored[h].sha1, stored[h].t)
           /\ (legacy /\ pc[h] = "hash") => h \in lock[LockName(f)]
           /\ (legacy /\ pc[h] \notin {"read", "hash"}) =>
                  /\ checksum_result[h] =
                         IF hash_file(FileBytes(f)) = stored[h].sha1
                         THEN "True" ELSE "False"
                  /\ vlog[h] = {[file |-> f, t |-> stored[h].t,
                                 ts |-> NoTimestamp, sha1 |-> stored[h].sha1,
                                 hashed |-> TRUE, wrote |-> TRUE,
                                 result |-> checksum_result[h]]}

\* C20 witness: the verifier returned False for Fa_10, whose record had a
\* checksum other than its hash and no timestamp; the record now has the
\* same checksum and the time of the call.
C20_Witness ==
    /\ pc["h1"] = "classify"
    /\ base_file["h1"] = Fa_10
    /\ stored["h1"].ts = NoTimestamp
    /\ stored["h1"].sha1 # NoValue
    /\ stored["h1"].sha1 # hash_file(FileBytes(Fa_10))
    /\ checksum_result["h1"] = "False"
    /\ info[Fa_10] = Record(stored["h1"].sha1, now)

\* The verifier returned True after the upgrade of the record of Fa_10.
C20_UpgradedAndOk ==
    /\ pc["h1"] = "classify"
    /\ base_file["h1"] = Fa_10
    /\ stored["h1"].ts = NoTimestamp
    /\ stored["h1"].sha1 = hash_file(FileBytes(Fa_10))
    /\ checksum_result["h1"] = "True"
    /\ info[Fa_10] = Record(stored["h1"].sha1, now)


\* The entries the scan has to put in unexplained_images: a name of the
\* length of a digest, or a longer name with "_" after the digest that is
\* not a valid info file.
IsOriginalCandidate(ent) == NameLen(ent) = digest_size

IsDerivedCandidate(ent) ==
    /\ NameLen(ent) > digest_size + 1
    /\ CharAt(ent, digest_size) = "_"
    /\ ~is_valid_info_file(ent)

IsCandidate(ent) == IsOriginalCandidate(ent) \/ IsDerivedCandidate(ent)

\* C21: after the scan, unexplained_images holds, in the order of the
\* listing, the entries whose name has the length of a digest and the
\* entries longer than a digest plus one character with "_" at the index
\* digest_size that are not valid info files; originals holds the former;
\* no other entry is stored.
C21_ScannerClassification ==
    \A h \in Hosts :
        pc[h] = "collect" =>
            /\ unexplained_images[h] = SelectSeq(ListDir, IsCandidate)
            /\ originals[h] = SelectSeq(ListDir, IsOriginalCandidate)


\* The positions of the snapshot of host h that hold an instance of image i.
InstancesOf(h, i) ==
    {k \in 1..Len(all_instances[h]) : all_instances[h][k].image_ref = i}

\* The snapshot of host h in every order of iteration.
Reorderings(h) ==
    LET n == Len(all_instances[h])
        perms == {p \in [1..n -> 1..n] : \A j, k \in 1..n : p[j] = p[k] => j = k}
    IN {[k \in 1..n |-> all_instances[h][p[k]]] : p \in perms}

\* The usage map with the list of names of each image taken as a bag.
UsageCounts(used) ==
    [i \in DOMAIN used |->
        <<used[i][1], used[i][2],
          [n \in Range(used[i][3]) |->
              Cardinality({k \in 1..Len(used[i][3]) : used[i][3][k] = n})]>>]

\* C22: once the usage is collected, the keys of used_images are the images
\* of the snapshot; for each key local_count is the number of its instances
\* whose host is the local host, remote_count the number of its other
\* instances (an instance without host included), the names recorded are
\* the names of its instances, and local_count + remote_count is the number
\* of names recorded and at least 1; the counts, the names of each image
\* and instance_names are the same for every order of the snapshot.
C22_UsageCollection ==
    \A h \in Hosts :
        Collected(h) =>
            /\ DOMAIN used_images[h] =
                   {all_instances[h][k].image_ref : k \in 1..Len(all_instances[h])}
            /\ \A i \in DOMAIN used_images[h] :
                   LET u == used_images[h][i]
                   IN /\ u[1] = Cardinality({k \in InstancesOf(h, i) :
                                                all_instances[h][k].host = h})
                      /\ u[2] = Cardinality({k \in InstancesOf(h, i) :
                                                all_instances[h][k].host # h})
                      /\ Range(u[3]) =
                             {all_instances[h][k].name : k \in InstancesOf(h, i)}
                      /\ u[1] + u[2] = Len(u[3])
                      /\ u[1] + u[2] >= 1
                      /\ image_popularity[h][i] = u[1] + u[2]
            /\ \A other \in Reorderings(h) :
                   LET st == list_running_instances(other, h,
                                 [used_images |-> <<>>, image_popularity |-> <<>>,
                                  instance_names |-> {}])
                   IN /\ UsageCounts(st.used_images) = UsageCounts(used_images[h])
                      /\ st.image_popularity = image_popularity[h]
                      /\ st.instance_names = instance_names[h]

\* C22 witness: the snapshot holds two instances of image a, the first
\* without host and the second on the local host; the usage of a is one
\* local and one remote instance, with both names.
C22_Witness ==
    /\ Collected("h1")
    /\ Len(all_instances["h1"]) = 2
    /\ all_instances["h1"][1].host = NoValue
    /\ all_instances["h1"][2].host = "h1"
    /\ all_instances["h1"][1].name # all_instances["h1"][2].name
    /\ DOMAIN used_images["h1"] = {"a"}
    /\ used_images["h1"]["a"][1] = 1
    /\ used_images["h1"]["a"][2] = 1
    /\ Len(used_images["h1"]["a"][3]) = 2


\* The step of verify_base_images a position belongs to: 1 scan, 2 usage
\* collection, 3 the loop over the used images, 4 backing images, 5 unknown
\* files, 6 removal, 7 the end of the pass.
StepOf(p) ==
    CASE p = "idle" -> 0
      [] p = "scan" -> 1
      [] p = "collect" -> 2
      [] p \in {"images", "find_original", "find_small", "find_resized",
                "handle", "lock", "read", "hash", "create", "classify"} -> 3
      [] p = "backing" -> 4
      [] p = "unknown" -> 5
      [] p \in {"remove", "unlink"} -> 6
      [] OTHER -> 7

\* C23: a pass starts with the reset and then takes its steps in the order
\* scan, usage collection, the loop over the used images, backing images,
\* unknown files, removal: a pass never goes back a step and leaves one out
\* only to end; a file is deleted only in the removal step, when every used
\* image has been iterated and the collection, the backing images and the
\* unknown files are done; and removable_base_files does not change once
\* the removal step has started.
C23_StepOrder ==
    [][\A h \in Hosts :
          IF passes'[h] # passes[h]
          THEN /\ StepOf(pc[h]) \in {0, 7}
               /\ StepOf(pc'[h]) \in {1, 7}
               /\ active_base_files'[h] = <<>>
               /\ removable_base_files'[h] = <<>>
               /\ unexplained_images'[h] = <<>>
               /\ used_images'[h] = <<>>
               /\ deleted'[h] = {}
          ELSE /\ StepOf(pc'[h]) >= StepOf(pc[h])
               /\ StepOf(pc'[h]) <= StepOf(pc[h]) + 1 \/ StepOf(pc'[h]) = 7
               /\ StepOf(pc[h]) = 3 /\ StepOf(pc'[h]) = 4 => todo_images[h] = {}
               /\ deleted'[h] # deleted[h] =>
                      /\ StepOf(pc[h]) = 6
                      /\ todo_images[h] = {}
               /\ StepOf(pc[h]) >= 6 =>
                      removable_base_files'[h] = removable_base_files[h]
      ]_vars

\* C23 witness: a pass that found Fa_10 for the used image a and the backing
\* file Fz_10 has ended and deleted a file.
C23_Witness ==
    /\ pc["h1"] = "done"
    /\ deleted["h1"] # {}
    /\ Fa_10 \in Active("h1")
    /\ Fz_10 \in Active("h1")
    /\ DOMAIN used_images["h1"] # {}


\* C24: a removal attempt of any host that reads the modification time of a
\* file after some host refreshed the file with os.utime at time t, and at
\* a time earlier than t + maxage, finds the file too young and does not
\* remove it.
C24_RefreshProtects ==
    \A h \in Hosts :
        \A e \in rmlog[h] :
            (e.utime # NoTimestamp /\ e.t < e.utime + e.maxage) =>
                /\ e.outcome = "young"
                /\ e.mtime >= e.utime

\* C24 witness: host h1 refreshed Fa_10 as the file of a used image; host
\* h2, for which Fa_10 is removable, read its age afterwards, found it too
\* young and ended its pass without deleting it.
C24_Witness ==
    /\ Fa_10 \in touched["h1"] \cap Active("h1")
    /\ Fa_10 \in Removable("h2")
    /\ pc["h2"] = "done"
    /\ Fa_10 \notin deleted["h2"]
    /\ \E e \in rmlog["h2"] :
           /\ e.file = Fa_10
           /\ e.utime # NoTimestamp
           /\ e.t < e.utime + e.maxage
           /\ e.outcome = "young"

\* Host h2 removed Fa_10 after host h1 refreshed it, once the minimum age
\* had passed since the refresh.
C24_RemovedAfterThreshold ==
    /\ Fa_10 \in touched["h1"]
    /\ Fa_10 \in deleted["h2"]
    /\ \E e \in rmlog["h2"] :
           /\ e.file = Fa_10
           /\ e.utime # NoTimestamp
           /\ e.t = e.utime + e.maxage
           /\ e.outcome = "removing"


\* C25: removable_base_files stays empty until the loop over the used
\* images and the backing images are done, so no file handled for a used
\* image is put in it, every image of the usage map being in use; at the end
\* of a pass the active and the removable files are disjoint, and the
\* removable files are the scanned files that were neither handled for a
\* used image nor found as the backing file of an expected instance.
C25_RemovableIsTheRest ==
    \A h \in Hosts :
        /\ StepOf(pc[h]) \in 1..5 => removable_base_files[h] = <<>>
        /\ Collected(h) => \A i \in DOMAIN used_images[h] : ImageInUse(h, i)
        /\ pc[h] = "done" =>
               /\ Active(h) \cap Removable(h) = {}
               /\ Removable(h) =
                      Range(scanned[h]) \
                          (touched[h] \cup list_backing_images(instance_names[h]))
               /\ Active(h) =
                      touched[h] \cup list_backing_images(instance_names[h])

\* C25 witness: a pass ended with a file handled for a used image and a
\* backing file active and with another scanned file removable.
C25_Witness ==
    /\ pc["h1"] = "done"
    /\ Fa_10 \in touched["h1"]
    /\ Fz_10 \in list_backing_images(instance_names["h1"]) \ touched["h1"]
    /\ {Fa_10, Fz_10} \subseteq Active("h1")
    /\ Removable("h1") # {}
    /\ Removable("h1") \subseteq Range(scanned["h1"])


\* C26: when a pass hashed a file at time t and found the hash equal to the
\* stored checksum, a verification of the same file by the next pass at a
\* time earlier than t + checksum_interval_seconds returns True without
\* hashing the file.
C26_HashedOncePerInterval ==
    \A h \in Hosts :
        \A e1 \in prev[h].vlog : \A e2 \in vlog[h] :
            (/\ e1.file = e2.file
             /\ e1.hashed /\ e1.result = "True"
             /\ e2.t < e1.t + checksum_interval_seconds) =>
                (~e2.hashed /\ e2.result = "True")


\* C27: when a pass returned False for a file, a verification of that file
\* by the next pass that reads the same stored checksum does not return
\* True, the bytes of the file being the same.
C27_CorruptionStaysReported ==
    \A h \in Hosts :
        \A e1 \in prev[h].vlog : \A e2 \in vlog[h] :
            (/\ e1.file = e2.file
             /\ e1.result = "False"
             /\ e2.sha1 = e1.sha1) =>
                e2.result # "True"

\* When the failed verification read a record with a timestamp, the next
\* pass does not return True.
C27_StaysReportedWithTimestamp ==
    \A h \in Hosts :
        \A e1 \in prev[h].vlog : \A e2 \in vlog[h] :
            (/\ e1.file = e2.file
             /\ e1.result = "False"
             /\ e1.ts # NoTimestamp
             /\ e2.sha1 = e1.sha1) =>
                e2.result = "False"


\* The verifications in which a host found no stored checksum for a file,
\* hashed the file and wrote the record.
Creations(h) ==
    {e \in vlog[h] : e.sha1 = NoValue /\ e.wrote /\ e.result = "None"}

\* C28: when a host found no stored checksum for a file and wrote the
\* record, no other host wrote a record for that file; another host that
\* verifies the file read the record of the first host, whole, with the
\* time of its writing (not before the first host read), and, when it read
\* it before checksum_interval_seconds had passed since, returned True
\* without hashing the file or writing; and the record stays as the first host wrote it while
\* the file is there.
C28_OneWriter ==
    \A g, h \in Hosts :
        g # h =>
            \A e1 \in Creations(g) : \A e2 \in vlog[h] :
                e1.file = e2.file =>
                    /\ e2 \notin Creations(h)
                    /\ e2.sha1 = hash_file(FileBytes(e1.file))
                    /\ e2.ts # NoTimestamp
                    /\ e1.t <= e2.ts /\ e2.ts <= e2.t
                    /\ ~e2.wrote
                    /\ e2.t < e2.ts + checksum_interval_seconds =>
                           (~e2.hashed /\ e2.result = "True")
                    /\ Exists(e1.file) =>
                           info[e1.file] = Record(e2.sha1, e2.ts)

\* C28 witness: both hosts verified Fa_10, which had no stored checksum; h1
\* wrote the record, and h2 read it and returned True without hashing.
C28_Witness ==
    /\ \E e1 \in Creations("h1") : e1.file = Fa_10
    /\ \E e2 \in vlog["h2"] :
           /\ e2.file = Fa_10
           /\ e2.result = "True"
           /\ ~e2.hashed /\ ~e2.wrote
           /\ e2.ts # NoTimestamp
    /\ pc["h1"] = "done" /\ pc["h2"] = "done"
    /\ info[Fa_10] # NoRecord


\* The locks host h holds.
LocksHeld(h) == {n \in BaseNames : h \in lock[LockName(n)]}

\* C29: a host holds at most one lock and asks for none while it holds one,
\* and under fair scheduling and fair lock granting every pass that has
\* started reaches the end of the removal step.
C29_PassesTerminate ==
    /\ [](\A h \in Hosts :
             /\ Cardinality(LocksHeld(h)) <= 1
             /\ pc[h] = "lock" => LocksHeld(h) = {})
    /\ \A h \in Hosts : (passes[h] > 0) ~> (pc[h] = "done")

\* Every pass that has started ends, at the end of the removal step or on
\* an exception, and a host that ended holds no lock.
C29_PassesEnd ==
    /\ [](\A h \in Hosts :
             /\ Cardinality(LocksHeld(h)) <= 1
             /\ pc[h] = "lock" => LocksHeld(h) = {}
             /\ pc[h] \in {"done", "failed"} => LocksHeld(h) = {})
    /\ \A h \in Hosts : (passes[h] > 0) ~> (pc[h] \in {"done", "failed"})


\* The names of the snapshot of host h that have an instance in one of the
\* task states given or in the vm_state resized.
NamesInResize(h, task) ==
    {i.name : i \in {x \in Range(all_instances[h]) :
                        x.task_state \in task \/ x.vm_state = RESIZED}}

\* The names a snapshot gives when the shadow name is added for the task
\* states given and for the vm_state resized.
ExpectedNames(h, task) ==
    {i.name : i \in Range(all_instances[h])}
    \cup {resize_name(n) : n \in NamesInResize(h, task)}

\* Once the usage is collected instance_names holds the names of the
\* instances and the shadow names of the instances in resize, and no other
\* name; at the end of a pass the active files are the files handled for a
\* used image and the backing files of the disks of these names, so the
\* directory name_resize of an instance that is not in resize makes no file
\* active.
ShadowOnlyFor(task) ==
    \A h \in Hosts :
        /\ Collected(h) => instance_names[h] = ExpectedNames(h, task)
        /\ pc[h] = "done" =>
               Active(h) =
                   touched[h] \cup list_backing_images(ExpectedNames(h, task))

\* C30 as stated: the task states that add the shadow name are resize_prep,
\* resize_migrating and resize_migrated.
C30_ShadowOnlyInResize ==
    ShadowOnlyFor({RESIZE_PREP, RESIZE_MIGRATING, RESIZE_MIGRATED})

\* C30 amended: the task states that add the shadow name are resize_prep,
\* resize_migrating, resize_migrated and resize_finish; an instance in none
\* of them and not in the vm_state resized gives its own name only, and its
\* directory name_resize makes no backing file active.
C30_ShadowInResizeStates ==
    ShadowOnlyFor({RESIZE_PREP, RESIZE_MIGRATING, RESIZE_MIGRATED,
                   RESIZE_FINISH})

\* C30 witness: the only instance is i1, in no resize state; the disk of the
\* directory i1_resize is backed by Fz_10, which the scan found; the pass
\* ended with Fz_10 removable and deleted, and with Fa_10, the backing file
\* of i1, active.
C30_Witness ==
    /\ pc["h1"] = "done"
    /\ Len(all_instances["h1"]) = 1
    /\ all_instances["h1"][1].name = "i1"
    /\ all_instances["h1"][1].task_state = NoValue
    /\ all_instances["h1"][1].vm_state = "active"
    /\ instance_names["h1"] = {"i1"}
    /\ inst_dirs["i1_resize"].backing = Fz_10
    /\ In(Fz_10, scanned["h1"])
    /\ Fz_10 \in Removable("h1") \cap deleted["h1"]
    /\ Fz_10 \notin Active("h1")
    /\ Fa_10 \in Active("h1")

\* The only instance is i1 in the task state resize_finish, and Fz_10, the
\* backing file of the directory i1_resize, is active at the end of the pass.
C30_ShadowInFinish ==
    /\ pc["h1"] = "done"
    /\ Len(all_instances["h1"]) = 1
    /\ all_instances["h1"][1].name = "i1"
    /\ all_instances["h1"][1].task_state = RESIZE_FINISH
    /\ instance_names["h1"] = {"i1", "i1_resize"}
    /\ In(Fz_10, scanned["h1"])
    /\ Fz_10 \in Active("h1")
    /\ Fz_10 \notin Removable("h1")

====
